---------------------------- MODULE Spec2Model ----------------------------
(***************************************************************************)
(* A model of the applicant-profile intake, analysis and report-export     *)
(* pipeline of src/frontend/src/App.tsx (the App orchestrator, the         *)
(* UserForm intake component, the AnalysisReport view with its PDF         *)
(* exporter, and the apiService client).                                   *)
(*                                                                         *)
(* JavaScript runs one handler at a time, so every handler is one action;  *)
(* an async handler is one action up to its await and one action for its   *)
(* continuation.  The exporter's while loop is taken one iteration at a    *)
(* time, and no other handler runs between its iterations.                 *)
(***************************************************************************)
EXTENDS Integers, Sequences, FiniteSets, TLC

(***************************************************************************)
(* JavaScript values.  undefined is a value that was never entered or a    *)
(* key that is absent; null is what a cleared InputNumber holds.           *)
(***************************************************************************)
Undefined == [k |-> "undefined"]
Null == [k |-> "null"]
Num(n) == [k |-> "number", n |-> n]
Str(s) == [k |-> "string", s |-> s]
Arr(a) == [k |-> "array", a |-> a]
Obj(o) == [k |-> "object", o |-> o]

\* a test for presence rather than truthiness: 0 counts
Truthy_ZeroCounts(v) ==
    CASE v.k = "undefined" -> FALSE
      [] v.k = "null" -> FALSE
      [] v.k = "string" -> v.s # ""
      [] OTHER -> TRUE

\* JavaScript truthiness, as used by the && chains of handleSubmit and by the
\* if/else-if chain of the catch block.
Truthy(v) ==
    CASE v.k = "undefined" -> FALSE
      [] v.k = "null" -> FALSE
      [] v.k = "number" -> v.n # 0
      [] v.k = "string" -> v.s # ""
      [] OTHER -> TRUE

(***************************************************************************)
(* Bounds of the model.                                                    *)
(***************************************************************************)
\* add() calls per experience list in one life of the form
MaxAdds == 1
\* entries of the action plan of a report
MaxPlan == 3
\* comparable cases of a report
MaxCases == 2
\* analysis calls that may be in flight at once before the model stops adding
MaxCalls == 2
\* html2canvas captures that may be in flight at once
MaxExports == 1
\* largest canvas height, in pixels, the capture may return
MaxCanvasHeight == 900

(***************************************************************************)
(* The fields of the form (the name= of each Form.Item) and of the         *)
(* UserBackground payload.                                                 *)
(***************************************************************************)
RequiredFields ==
    {"undergraduate_university", "undergraduate_major", "gpa", "gpa_scale",
     "graduation_year", "target_countries", "target_majors",
     "target_degree_type"}

LanguageFields ==
    {"language_test_type", "language_total_score", "language_reading",
     "language_listening", "language_speaking", "language_writing"}

\* the GRE inputs the form renders: there is no input for gre_verbal or
\* gre_quantitative
GREInputs == {"gre_total", "gre_writing"}

\* the GRE keys handleSubmit assigns
GREFields == {"gre_total", "gre_verbal", "gre_quantitative", "gre_writing"}

GMATFields == {"gmat_total"}

FormFields == RequiredFields \cup LanguageFields \cup GREInputs \cup GMATFields

ListNames == {"research_experiences", "internship_experiences", "other_experiences"}

\* the inputs of one card of each Form.List
ExpFields(l) ==
    CASE l = "research_experiences" -> {"name", "role", "description"}
      [] l = "internship_experiences" -> {"company", "position", "description"}
      [] OTHER -> {"name", "description"}

BlankEntry(l) == [f \in ExpFields(l) |-> Undefined]

VARIABLES
    currentStep,       \* App: 'form' or 'report'
    analysisReport,    \* App: the stored report, or NoReport (null)
    loading,           \* App: the pending flag
    store,             \* UserForm: the antd form store, field name -> value
    hasLanguageScore,  \* UserForm: language block toggle
    hasGRE,            \* UserForm: Test-A block toggle
    hasGMAT,           \* UserForm: Test-B block toggle
    lists,             \* UserForm: the three Form.Lists, each a sequence of
                       \*   [key, data]: key is the stable field key
    nextKey,           \* UserForm: the next key each Form.List hands out
    fieldErrors,       \* UserForm: the required inputs whose rule message is
                       \*   shown under them
    entered,           \* history: per Form.List, the cards on screen as the
                       \*   user left them, [key, data] with data what the user
                       \*   last typed into that card
    calls,             \* the analyze requests in flight: their payloads
    notices,           \* the toasts (message.success / message.error) shown
                       \*   since the last accepted submit
    logged,            \* the errors console.error printed since the last
                       \*   accepted submit
    droppedSubmit,     \* a click on the submit trigger was made while the
                       \*   call now pending was in flight
    captures,          \* html2canvas captures in flight
    pager,             \* the continuation of downloadPDF while it paginates
    savedPages,        \* pages of the last file pdf.save wrote, 0 if none
    pdfErrorLogged     \* the catch block of downloadPDF has run

appVars == <<currentStep, analysisReport, loading>>
formVars == <<store, hasLanguageScore, hasGRE, hasGMAT, lists, nextKey,
              fieldErrors, entered>>
exportVars == <<captures, pager, savedPages, pdfErrorLogged>>
vars == <<currentStep, analysisReport, loading, store, hasLanguageScore,
          hasGRE, hasGMAT, lists, nextKey, fieldErrors, entered, calls,
          notices, logged, droppedSubmit, captures, pager, savedPages,
          pdfErrorLogged>>

NoReport == [k |-> "null"]
Idle == [phase |-> "idle"]

(***************************************************************************)
(* The state of a UserForm that has just been mounted: Form.useForm() and  *)
(* the three useState(false).                                              *)
(***************************************************************************)
FreshForm ==
    [store |-> [f \in FormFields |-> Undefined],
     hasLanguageScore |-> FALSE,
     hasGRE |-> FALSE,
     hasGMAT |-> FALSE,
     lists |-> [l \in ListNames |-> <<>>],
     nextKey |-> [l \in ListNames |-> 0],
     fieldErrors |-> {},
     entered |-> [l \in ListNames |-> {}]]

FormState ==
    [store |-> store,
     hasLanguageScore |-> hasLanguageScore,
     hasGRE |-> hasGRE,
     hasGMAT |-> hasGMAT,
     lists |-> lists,
     nextKey |-> nextKey,
     fieldErrors |-> fieldErrors,
     entered |-> entered]

Init ==
    /\ currentStep = "form"
    /\ analysisReport = NoReport
    /\ loading = FALSE
    /\ store = FreshForm.store
    /\ hasLanguageScore = FALSE
    /\ hasGRE = FALSE
    /\ hasGMAT = FALSE
    /\ lists = FreshForm.lists
    /\ nextKey = FreshForm.nextKey
    /\ fieldErrors = FreshForm.fieldErrors
    /\ entered = FreshForm.entered
    /\ calls = <<>>
    /\ notices = <<>>
    /\ logged = <<>>
    /\ droppedSubmit = FALSE
    /\ captures = 0
    /\ pager = Idle
    /\ savedPages = 0
    /\ pdfErrorLogged = FALSE


(***************************************************************************)
(* What App renders, and what the controls under it accept.                *)
(***************************************************************************)
\* {currentStep === 'form' && <UserForm .../>}
UserFormMounted(step) == step = "form"

\* a report view that is always there
ReportViewMounted_Always(step, report) == TRUE

\* {currentStep === 'report' && analysisReport && <AnalysisReport .../>}
ReportViewMounted(step, report) == step = "report" /\ report # NoReport

\* <Spin spinning={loading}> covers the view: the inputs under it take no edits
InputBlocked(l) == l

\* a trigger that is never disabled
SubmitDisabled_Never(l) == FALSE

\* the submit trigger: <Button htmlType="submit" disabled={loading}>
SubmitDisabled(l) == l

\* a Form.Item of an optional block is rendered only while its toggle is on
FieldMounted(f, hasLang, hasGre, hasGmat) ==
    CASE f \in LanguageFields -> hasLang
      [] f \in GREInputs -> hasGre
      [] f \in GMATFields -> hasGmat
      [] OTHER -> TRUE

\* a value the form passes to onFinish; a name without a Form.Item is undefined
Lookup(values, f) == IF f \in DOMAIN values THEN values[f] ELSE Undefined

\* a required rule that lets an empty selection pass
RequiredRuleFails_PassesEmptySet(v) ==
    \/ v.k = "undefined"
    \/ v.k = "null"
    \/ v.k = "string" /\ v.s = ""

\* rules={[{ required: true }]}: undefined, null, '' and [] fail the rule
RequiredRuleFails(v) ==
    \/ v.k = "undefined"
    \/ v.k = "null"
    \/ v.k = "string" /\ v.s = ""
    \/ v.k = "array" /\ v.a = <<>>

MissingRequired(values) == {f \in RequiredFields : RequiredRuleFails(values[f])}

(***************************************************************************)
(* UserForm.handleSubmit: the UserBackground assembled from the form       *)
(* values.  A key the code does not assign is Undefined (absent from the   *)
(* serialized payload).                                                    *)
(***************************************************************************)
\* no gate at all: the language keys are always copied
IncludeLanguage_Always(hasLang, values) == TRUE

\* a language gate that forgets the toggle
IncludeLanguage_IgnoresToggle(hasLang, values) ==
    /\ Truthy(Lookup(values, "language_test_type"))
    /\ Truthy(Lookup(values, "language_total_score"))

\* a language gate that forgets the test type
IncludeLanguage_TotalOnly(hasLang, values) ==
    hasLang /\ Truthy(Lookup(values, "language_total_score"))

IncludeLanguage(hasLang, values) ==
    /\ hasLang
    /\ Truthy(Lookup(values, "language_test_type"))
    /\ Truthy(Lookup(values, "language_total_score"))

IncludeGRE(hasGre, values) == hasGre /\ Truthy(Lookup(values, "gre_total"))

IncludeGMAT(hasGmat, values) == hasGmat /\ Truthy(Lookup(values, "gmat_total"))

\* values.research_experiences || [] : the entries in order, without their keys
StripKeys(list) == [i \in 1..Len(list) |-> list[i].data]

handleSubmit(values, exps, hasLang, hasGre, hasGmat) ==
    [required |-> [f \in RequiredFields |-> Lookup(values, f)],
     language |-> [f \in LanguageFields |->
                     IF IncludeLanguage(hasLang, values)
                     THEN Lookup(values, f) ELSE Undefined],
     gre |-> [f \in GREFields |->
                IF IncludeGRE(hasGre, values)
                THEN Lookup(values, f) ELSE Undefined],
     gmat |-> [f \in GMATFields |->
                IF IncludeGMAT(hasGmat, values)
                THEN Lookup(values, f) ELSE Undefined],
     experiences |-> [l \in ListNames |-> StripKeys(exps[l])]]

(***************************************************************************)
(* The outcomes of apiService.analyzeUserBackground.                       *)
(***************************************************************************)
\* two entries of an action plan (interface ActionPlan)
PlanNow ==
    [timeframe |-> Str("next 3 months"),
     action |-> Str("join a research project"),
     goal |-> Str("one research experience")]
PlanLater ==
    [timeframe |-> Str("months 4 to 6"),
     action |-> Str("retake the language test"),
     goal |-> Str("a total of 105")]

\* two comparable cases (interface CaseAnalysis), one with and one without
\* the optional language_test_type
CaseWithType ==
    [admitted_university |-> Str("ETH Zurich"),
     language_test_type |-> Str("TOEFL"),
     key_experiences |-> Str("two internships")]
CaseWithoutType ==
    [admitted_university |-> Str("ETH Zurich"),
     language_test_type |-> Undefined,
     key_experiences |-> Undefined]

\* The reports the remote service returns: objects of type AnalysisReport,
\* whose background_improvement may be null.
Reports ==
    {[similar_cases |-> <<CaseWithType, CaseWithoutType>>,
      background_improvement |-> Null],
     [similar_cases |-> <<CaseWithType, CaseWithoutType>>,
      background_improvement |->
        Obj([action_plan |-> <<PlanNow, PlanLater>>,
             strategy_summary |-> Str("research first, then tests")])]}

\* The comparable cases of SpecCases: language_test_type and key_experiences
\* are optional keys (missing, null, empty or a text).
CaseRecords ==
    [admitted_university : {Str("ETH Zurich")},
     language_test_type : {Undefined, Null, Str(""), Str("TOEFL"), Str("IELTS")},
     key_experiences : {Undefined, Str("two internships")}]

\* similar_cases: up to MaxCases records
CaseLists == UNION {[1..n -> CaseRecords] : n \in 0..MaxCases}

\* The reports of SpecCases: any list of comparable cases.
CaseReports ==
    {[similar_cases |-> c, background_improvement |-> Null] : c \in CaseLists}

\* strategy_summary: a text, which may be empty
Summaries == {Str(""), Str("research first, then tests")}

\* action_plan: up to MaxPlan entries, in any order, repeats included
ActionPlans == UNION {[1..n -> {PlanNow, PlanLater}] : n \in 0..MaxPlan}

\* The reports of SpecReport: background_improvement null, missing from the
\* response, or a block with any plan and summary.
ReportCases ==
    {[similar_cases |-> <<>>, background_improvement |-> b] : b \in {Null, Undefined}}
    \cup {[similar_cases |-> <<>>,
           background_improvement |-> Obj([action_plan |-> p, strategy_summary |-> t])] :
             p \in ActionPlans, t \in Summaries}

\* what axios puts in error.message when the timeout of apiClient expires and
\* no response was received
TimeoutText == Str("timeout of 300000ms exceeded")

\* The errors the call rejects with: detail is error.response?.data?.detail,
\* message is error.message.
Errors ==
    {[detail |-> Str("quota exceeded"),
      message |-> Str("Request failed with status code 429")],
     [detail |-> Undefined, message |-> TimeoutText],
     [detail |-> Undefined, message |-> Undefined]}

\* The errors of SpecErrors: every combination of a detail and a message that
\* is missing, empty or a text.
ErrorCases ==
    [detail : {Undefined, Str(""), Str("quota exceeded")},
     message : {Undefined, Str(""), Str("Request failed with status code 429"),
                TimeoutText}]

FallbackText == Str("analysis failed, please retry later")
SuccessText == Str("analysis complete")

\* a chain that looks at error.message first
ErrorMessage_MessageFirst(error) ==
    IF Truthy(error.message) THEN error.message
    ELSE IF Truthy(error.detail) THEN error.detail
    ELSE FallbackText

\* a chain whose second branch is an else without a test
ErrorMessage_Unguarded(error) ==
    IF Truthy(error.detail) THEN error.detail ELSE error.message

\* the if / else-if chain of the catch block
ErrorMessage(error) ==
    IF Truthy(error.detail) THEN error.detail
    ELSE IF Truthy(error.message) THEN error.message
    ELSE FallbackText

\* the flag cleared in the catch block only
FinallyLoading_FailureOnly(outcome) == outcome # "failure"

\* the flag never cleared
FinallyLoading_Never(outcome) == TRUE

\* the flag cleared on the success path only (no finally block)
FinallyLoading_SuccessOnly(outcome) == outcome # "success"

\* finally { setLoading(false) }: the flag after the call has settled, whatever
\* its outcome ("success" or "failure")
FinallyLoading(outcome) == FALSE

\* a back navigation that leaves the report in place
ReportAfterBack_Kept(report) == report

\* handleBackToForm: setAnalysisReport(null)
ReportAfterBack(report) == NoReport

\* a removal that drops the last card whatever card was asked for
RemoveAt_Last(seq, i) == [j \in 1..(Len(seq) - 1) |-> seq[j]]

\* the sequence without its i-th element
RemoveAt(seq, i) == [j \in 1..(Len(seq) - 1) |-> IF j < i THEN seq[j] ELSE seq[j + 1]]

\* a UserForm that is mounted anew by every render of App
FormAfterRender_Remounts(stepBefore, stepAfter) == FreshForm

\* a UserForm that is hidden, not unmounted, while the report is shown
FormAfterRender_Hidden(stepBefore, stepAfter) == FormState

\* The UserForm state after App has rendered again: kept while the component
\* stays mounted, gone once it is unmounted, fresh when it is mounted anew.
FormAfterRender(stepBefore, stepAfter) ==
    IF UserFormMounted(stepBefore) /\ UserFormMounted(stepAfter)
    THEN FormState
    ELSE FreshForm

SetForm(f) ==
    /\ store' = f.store
    /\ hasLanguageScore' = f.hasLanguageScore
    /\ hasGRE' = f.hasGRE
    /\ hasGMAT' = f.hasGMAT
    /\ lists' = f.lists
    /\ nextKey' = f.nextKey
    /\ fieldErrors' = f.fieldErrors
    /\ entered' = f.entered

\* no handler runs while the continuation of downloadPDF is in its loop
Ready == pager.phase = "idle"

\* the form is on screen and takes input
Editable == Ready /\ UserFormMounted(currentStep) /\ ~InputBlocked(loading)

(***************************************************************************)
(* UserForm: edits.                                                        *)
(***************************************************************************)
\* validateTrigger is onChange: a changed input is validated at once, the
\* messages under the other inputs stay as they are
ValidateChanged(errors, d) ==
    (errors \ DOMAIN d)
        \cup {f \in DOMAIN d \cap RequiredFields : RequiredRuleFails(d[f])}

\* The user changes the inputs named in DOMAIN d to the values d gives (one
\* onChange per input, no other handler between them).
ChangeFields(d) ==
    /\ Editable
    /\ \A f \in DOMAIN d : FieldMounted(f, hasLanguageScore, hasGRE, hasGMAT)
    /\ store' = [f \in FormFields |-> IF f \in DOMAIN d THEN d[f] ELSE store[f]]
    /\ fieldErrors' = ValidateChanged(fieldErrors, d)
    /\ UNCHANGED <<hasLanguageScore, hasGRE, hasGMAT, lists, nextKey, entered>>
    /\ UNCHANGED <<appVars, calls, notices, logged, droppedSubmit, exportVars>>

\* onClick={() => setHasLanguageScore(!hasLanguageScore)}
ToggleLanguage ==
    /\ Editable
    /\ hasLanguageScore' = ~hasLanguageScore
    /\ UNCHANGED <<store, hasGRE, hasGMAT, lists, nextKey, fieldErrors, entered>>
    /\ UNCHANGED <<appVars, calls, notices, logged, droppedSubmit, exportVars>>

\* a Test-A toggle that also switches the Test-B block off
ToggleGRE_ResetsGMAT ==
    /\ Editable
    /\ hasGRE' = ~hasGRE
    /\ hasGMAT' = FALSE
    /\ UNCHANGED <<store, hasLanguageScore, lists, nextKey, fieldErrors, entered>>
    /\ UNCHANGED <<appVars, calls, notices, logged, droppedSubmit, exportVars>>

\* onClick={() => setHasGRE(!hasGRE)}
ToggleGRE ==
    /\ Editable
    /\ hasGRE' = ~hasGRE
    /\ UNCHANGED <<store, hasLanguageScore, hasGMAT, lists, nextKey, fieldErrors, entered>>
    /\ UNCHANGED <<appVars, calls, notices, logged, droppedSubmit, exportVars>>

\* onClick={() => setHasGMAT(!hasGMAT)}
ToggleGMAT ==
    /\ Editable
    /\ hasGMAT' = ~hasGMAT
    /\ UNCHANGED <<store, hasLanguageScore, hasGRE, lists, nextKey, fieldErrors, entered>>
    /\ UNCHANGED <<appVars, calls, notices, logged, droppedSubmit, exportVars>>

\* an add() that takes the card's index as its key
AddCard_IndexKey(l, cap) ==
    /\ Editable
    /\ nextKey[l] < cap
    /\ lists' = [lists EXCEPT ![l] =
                    Append(@, [key |-> Len(lists[l]), data |-> BlankEntry(l)])]
    /\ nextKey' = [nextKey EXCEPT ![l] = @ + 1]
    /\ entered' = [entered EXCEPT ![l] =
                      @ \cup {[key |-> Len(lists[l]), data |-> BlankEntry(l)]}]
    /\ UNCHANGED <<store, hasLanguageScore, hasGRE, hasGMAT, fieldErrors>>
    /\ UNCHANGED <<appVars, calls, notices, logged, droppedSubmit, exportVars>>

\* Form.List add(): one blank card at the end, under a key not used before;
\* the list has handed out fewer than cap keys
AddCard(l, cap) ==
    /\ Editable
    /\ nextKey[l] < cap
    /\ lists' = [lists EXCEPT ![l] =
                    Append(@, [key |-> nextKey[l], data |-> BlankEntry(l)])]
    /\ nextKey' = [nextKey EXCEPT ![l] = @ + 1]
    /\ entered' = [entered EXCEPT ![l] =
                      @ \cup {[key |-> nextKey[l], data |-> BlankEntry(l)]}]
    /\ UNCHANGED <<store, hasLanguageScore, hasGRE, hasGMAT, fieldErrors>>
    /\ UNCHANGED <<appVars, calls, notices, logged, droppedSubmit, exportVars>>

AddExperience(l) == AddCard(l, MaxAdds)

\* Form.List remove(name): name is the card's present index in the list
RemoveExperience(l, i) ==
    /\ Editable
    /\ i \in 1..Len(lists[l])
    /\ lists' = [lists EXCEPT ![l] = RemoveAt(@, i)]
    /\ entered' = [entered EXCEPT ![l] = {c \in @ : c.key # lists[l][i].key}]
    /\ UNCHANGED <<store, hasLanguageScore, hasGRE, hasGMAT, nextKey, fieldErrors>>
    /\ UNCHANGED <<appVars, calls, notices, logged, droppedSubmit, exportVars>>

\* the user changes input f of card i of list l
EditExperience(l, i, f, v) ==
    /\ Editable
    /\ i \in 1..Len(lists[l])
    /\ f \in ExpFields(l)
    /\ lists' = [lists EXCEPT ![l][i].data[f] = v]
    /\ entered' = [entered EXCEPT ![l] =
                      {IF c.key = lists[l][i].key
                       THEN [c EXCEPT !.data[f] = v] ELSE c : c \in @}]
    /\ UNCHANGED <<store, hasLanguageScore, hasGRE, hasGMAT, nextKey, fieldErrors>>
    /\ UNCHANGED <<appVars, calls, notices, logged, droppedSubmit, exportVars>>

(***************************************************************************)
(* The submit trigger, and App.handleFormSubmit.                           *)
(***************************************************************************)
\* A click on the trigger while it is disabled: no handler runs.
SubmitWhileDisabled ==
    /\ Ready
    /\ UserFormMounted(currentStep)
    /\ SubmitDisabled(loading)
    /\ droppedSubmit' = TRUE
    /\ UNCHANGED <<appVars, formVars, calls, notices, logged, exportVars>>

\* A submit that fails a required rule: every rule is run, the messages of
\* the failed ones are shown, and onFinish is not called.
SubmitInvalid ==
    /\ Ready
    /\ UserFormMounted(currentStep)
    /\ ~SubmitDisabled(loading)
    /\ MissingRequired(store) # {}
    /\ fieldErrors' = MissingRequired(store)
    /\ UNCHANGED <<store, hasLanguageScore, hasGRE, hasGMAT, lists, nextKey, entered>>
    /\ UNCHANGED <<appVars, calls, notices, logged, droppedSubmit, exportVars>>

\* A submit that passes validation: handleSubmit assembles the payload and
\* handleFormSubmit runs up to its await.
SubmitValid ==
    /\ Ready
    /\ UserFormMounted(currentStep)
    /\ ~SubmitDisabled(loading)
    /\ MissingRequired(store) = {}
    /\ Len(calls) < MaxCalls
    /\ loading' = TRUE
    /\ calls' = Append(calls, handleSubmit(store, lists, hasLanguageScore, hasGRE, hasGMAT))
    /\ notices' = <<>>
    /\ logged' = <<>>
    /\ droppedSubmit' = FALSE
    /\ SetForm(FormAfterRender(currentStep, currentStep))
    /\ UNCHANGED <<currentStep, analysisReport, exportVars>>

\* The continuation of handleFormSubmit when call i resolves with a report.
AnalyzeSuccess(i, report) ==
    /\ Ready
    /\ i \in 1..Len(calls)
    /\ analysisReport' = report
    /\ currentStep' = "report"
    /\ notices' = Append(notices, [type |-> "success", content |-> SuccessText])
    /\ UNCHANGED logged
    /\ loading' = FinallyLoading("success")
    /\ calls' = RemoveAt(calls, i)
    /\ droppedSubmit' = FALSE
    /\ SetForm(FormAfterRender(currentStep, "report"))
    /\ UNCHANGED exportVars

\* a catch block that sends the rejected request once more
AnalyzeFailure_Retries(i, error) ==
    /\ Ready
    /\ i \in 1..Len(calls)
    /\ logged' = Append(logged, error)
    /\ notices' = Append(notices, [type |-> "error", content |-> ErrorMessage(error)])
    /\ loading' = TRUE
    /\ calls' = Append(RemoveAt(calls, i), calls[i])
    /\ droppedSubmit' = FALSE
    /\ SetForm(FormAfterRender(currentStep, currentStep))
    /\ UNCHANGED <<currentStep, analysisReport, exportVars>>

\* The continuation of handleFormSubmit when call i rejects.
AnalyzeFailure(i, error) ==
    /\ Ready
    /\ i \in 1..Len(calls)
    /\ logged' = Append(logged, error)
    /\ notices' = Append(notices, [type |-> "error", content |-> ErrorMessage(error)])
    /\ loading' = FinallyLoading("failure")
    /\ calls' = RemoveAt(calls, i)
    /\ droppedSubmit' = FALSE
    /\ SetForm(FormAfterRender(currentStep, currentStep))
    /\ UNCHANGED <<currentStep, analysisReport, exportVars>>

\* a back navigation that discards the report and leaves the step
handleBackToForm_KeepsStep ==
    /\ Ready
    /\ ReportViewMounted(currentStep, analysisReport)
    /\ currentStep' = currentStep
    /\ analysisReport' = ReportAfterBack(analysisReport)
    /\ SetForm(FormAfterRender(currentStep, currentStep))
    /\ UNCHANGED <<loading, calls, notices, logged, droppedSubmit, exportVars>>

\* App.handleBackToForm, reached from the report view's back button.
handleBackToForm ==
    /\ Ready
    /\ ReportViewMounted(currentStep, analysisReport)
    /\ currentStep' = "form"
    /\ analysisReport' = ReportAfterBack(analysisReport)
    /\ SetForm(FormAfterRender(currentStep, "form"))
    /\ UNCHANGED <<loading, calls, notices, logged, droppedSubmit, exportVars>>

(***************************************************************************)
(* AnalysisReport.downloadPDF.  Lengths are in millimetres and are         *)
(* fractions over canvas.width (imgHeight = canvas.height * imgWidth /     *)
(* canvas.width): the pager holds every length multiplied by canvas.width  *)
(* (its field scale), so that the arithmetic is exact.                     *)
(***************************************************************************)
imgWidth == 210
pageHeight == 295

CanvasWidths == {210, 420}

\* the canvases html2canvas may resolve with
Canvases == [width : CanvasWidths, height : 1..MaxCanvasHeight]

\* a loop that stops as soon as less than a whole page is left (read at a
\* canvas as wide as the page)
LoopContinues_WholePagesOnly(heightLeft) == heightLeft >= pageHeight * imgWidth

\* a loop that never stops
LoopContinues_Always(heightLeft) == TRUE

\* while (heightLeft >= 0)
LoopContinues(heightLeft) == heightLeft >= 0

\* downloadPDF up to its await: reportRef.current is set while the report view
\* is mounted
ClickDownload ==
    /\ Ready
    /\ ReportViewMounted(currentStep, analysisReport)
    /\ captures < MaxExports
    /\ captures' = captures + 1
    /\ UNCHANGED <<appVars, formVars, calls, notices, logged, droppedSubmit>>
    /\ UNCHANGED <<pager, savedPages, pdfErrorLogged>>

\* a failure that leaves a file of the one page made so far
CaptureFails_SavesPartial ==
    /\ Ready
    /\ captures > 0
    /\ captures' = captures - 1
    /\ pdfErrorLogged' = TRUE
    /\ savedPages' = 1
    /\ UNCHANGED <<appVars, formVars, calls, notices, logged, droppedSubmit>>
    /\ UNCHANGED pager

\* html2canvas rejects, or canvas.toDataURL throws: the catch block logs it
CaptureFails ==
    /\ Ready
    /\ captures > 0
    /\ captures' = captures - 1
    /\ pdfErrorLogged' = TRUE
    /\ UNCHANGED <<appVars, formVars, calls, notices, logged, droppedSubmit>>
    /\ UNCHANGED <<pager, savedPages>>

\* html2canvas resolves: the continuation creates the document, places the
\* image on page 1 at position 0 and takes one page height off heightLeft
CaptureDone(canvas) ==
    /\ Ready
    /\ captures > 0
    /\ captures' = captures - 1
    /\ pager' = [phase |-> "loop",
                 scale |-> canvas.width,
                 imgHeight |-> canvas.height * imgWidth,
                 heightLeft |-> canvas.height * imgWidth - pageHeight * canvas.width,
                 position |-> 0,
                 pages |-> <<0>>]
    /\ UNCHANGED <<appVars, formVars, calls, notices, logged, droppedSubmit>>
    /\ UNCHANGED <<savedPages, pdfErrorLogged>>

\* one iteration of the while loop
LoopIteration ==
    /\ pager.phase = "loop"
    /\ LoopContinues(pager.heightLeft)
    /\ LET position == pager.heightLeft - pager.imgHeight
       IN pager' = [pager EXCEPT !.position = position,
                                 !.pages = Append(@, position),
                                 !.heightLeft = @ - pageHeight * pager.scale]
    /\ UNCHANGED <<appVars, formVars, calls, notices, logged, droppedSubmit>>
    /\ UNCHANGED <<captures, savedPages, pdfErrorLogged>>

\* the loop is left: pdf.save writes the file
SavePdf ==
    /\ pager.phase = "loop"
    /\ ~LoopContinues(pager.heightLeft)
    /\ savedPages' = Len(pager.pages)
    /\ pager' = Idle
    /\ UNCHANGED <<appVars, formVars, calls, notices, logged, droppedSubmit>>
    /\ UNCHANGED <<captures, pdfErrorLogged>>

(***************************************************************************)
(* The inputs the specifications draw from.                                *)
(***************************************************************************)
\* every required input filled in
RequiredFilled ==
    [f \in RequiredFields |->
        CASE f = "undergraduate_university" -> Str("Peking University")
          [] f = "undergraduate_major" -> Str("Software Engineering")
          [] f = "gpa" -> Num(3)
          [] f = "gpa_scale" -> Str("4.0")
          [] f = "graduation_year" -> Num(2026)
          [] f = "target_countries" -> Arr(<<"US">>)
          [] f = "target_majors" -> Arr(<<"Data Science">>)
          [] OTHER -> Str("Master")]

\* every language input filled in
LanguageFilled ==
    [f \in LanguageFields |->
        CASE f = "language_test_type" -> Str("TOEFL")
          [] f = "language_total_score" -> Num(100)
          [] OTHER -> Num(25)]

GREFilled == [f \in GREInputs |-> IF f = "gre_total" THEN Num(320) ELSE Num(4)]

GMATFilled == [f \in GMATFields |-> Num(700)]

\* one input changed
One(f, v) == [g \in {f} |-> v]

\* Spec: whole sections filled in at once, and two inputs emptied again
SessionEdits ==
    {RequiredFilled, LanguageFilled, GREFilled, GMATFilled,
     One("undergraduate_university", Str("")),
     One("language_total_score", Undefined)}

\* SpecIntake: the inputs of the optional blocks changed one at a time
BlockEdits ==
    {RequiredFilled}
    \cup {One("language_test_type", v) : v \in {Undefined, Str("TOEFL")}}
    \cup {One("language_total_score", v) : v \in {Undefined, Num(0), Num(100)}}
    \cup {One(f, v) : f \in LanguageFields \ {"language_test_type", "language_total_score"},
                      v \in {Undefined, Num(25)}}
    \cup {One("gre_total", v) : v \in {Undefined, Num(320)}}
    \cup {One("gre_writing", v) : v \in {Undefined, Num(4)}}
    \cup {One("gmat_total", v) : v \in {Undefined, Num(700)}}

(***************************************************************************)
(* Spec: a session of the orchestrator with the whole form.                *)
(***************************************************************************)
Next ==
    \/ \E d \in SessionEdits : ChangeFields(d)
    \/ ToggleLanguage
    \/ ToggleGRE
    \/ ToggleGMAT
    \/ \E l \in ListNames : AddExperience(l)
    \/ \E l \in ListNames : \E i \in 1..MaxAdds : RemoveExperience(l, i)
    \/ SubmitWhileDisabled
    \/ SubmitInvalid
    \/ SubmitValid
    \/ \E i \in 1..MaxCalls : \E r \in Reports : AnalyzeSuccess(i, r)
    \/ \E i \in 1..MaxCalls : \E e \in Errors : AnalyzeFailure(i, e)
    \/ handleBackToForm

Spec == Init /\ [][Next]_vars

(***************************************************************************)
(* SpecIntake: the optional blocks, input by input.                        *)
(***************************************************************************)
NextIntake ==
    \/ \E d \in BlockEdits : ChangeFields(d)
    \/ ToggleLanguage
    \/ ToggleGRE
    \/ ToggleGMAT
    \/ SubmitInvalid
    \/ SubmitValid
    \/ \E i \in 1..MaxCalls : \E r \in Reports : AnalyzeSuccess(i, r)
    \/ \E i \in 1..MaxCalls : \E e \in Errors : AnalyzeFailure(i, e)
    \/ handleBackToForm

SpecIntake == Init /\ [][NextIntake]_vars

(***************************************************************************)
(* SpecExport: the exporter, over every canvas.                            *)
(***************************************************************************)
NextExport ==
    \/ ChangeFields(RequiredFilled)
    \/ SubmitValid
    \/ \E i \in 1..MaxCalls : \E r \in Reports : AnalyzeSuccess(i, r)
    \/ handleBackToForm
    \/ ClickDownload
    \/ CaptureFails
    \/ \E c \in Canvases : CaptureDone(c)
    \/ LoopIteration
    \/ SavePdf

SpecExport == Init /\ [][NextExport]_vars

(***************************************************************************)
(* The orchestrator's state machine, read off App's state.                 *)
(***************************************************************************)
OrchState ==
    IF loading THEN "Submitting"
    ELSE IF currentStep = "report" THEN "Report"
    ELSE "Form"

LastNotice == notices[Len(notices)]

\* a step in which a call settles with a failure
FailureStep ==
    /\ Len(calls') < Len(calls)
    /\ Len(notices') = Len(notices) + 1
    /\ notices'[Len(notices')].type = "error"

\* a step in which a call settles with a report
SuccessStep ==
    /\ Len(calls') < Len(calls)
    /\ Len(notices') = Len(notices) + 1
    /\ notices'[Len(notices')].type = "success"

\* a step in which a call is started
CallStep == Len(calls') > Len(calls)

(***************************************************************************)
(* C1.  At most one analysis call is in flight; a submit attempt made      *)
(* while a call is pending is a no-op: it starts no call, queues none and  *)
(* leaves the orchestrator (and everything else) as it was.                *)
(***************************************************************************)
C1_SingleCallInFlight ==
    [][ /\ Len(calls') <= 1
        /\ (loading => ~CallStep)
        /\ (droppedSubmit' /\ ~droppedSubmit =>
              /\ loading
              /\ UNCHANGED <<appVars, formVars, calls, notices, exportVars>>)
      ]_vars

\* a call is pending and a submit attempt has been made meanwhile
C1_Witness == loading /\ Len(calls) = 1 /\ droppedSubmit

(***************************************************************************)
(* C2.  The orchestrator starts in Form and only ever moves                *)
(* Form -> Submitting (on the submit of a valid profile),                  *)
(* Submitting -> Report (on success), Submitting -> Form (on failure) and  *)
(* Report -> Form (on back); and no state is terminal: Submitting can      *)
(* always be left, Report can always be left by going back, and Form can   *)
(* be left by a submit as soon as the required inputs are filled in, which *)
(* the user can always bring about.                                        *)
(***************************************************************************)
\* C2, the transitions: what one step may do to the orchestrator state
C2_Allowed ==
    \/ OrchState' = OrchState
    \/ /\ OrchState = "Form" /\ OrchState' = "Submitting"
       /\ MissingRequired(store) = {}
       /\ CallStep
    \/ /\ OrchState = "Submitting" /\ OrchState' = "Report"
       /\ SuccessStep
    \/ /\ OrchState = "Submitting" /\ OrchState' = "Form"
       /\ FailureStep
    \/ /\ OrchState = "Report" /\ OrchState' = "Form"
       /\ UNCHANGED <<calls, notices>>

\* C2, no terminal state: what can be left from each state
C2_NoTerminal ==
    /\ OrchState = "Submitting" => ENABLED (Next /\ OrchState' # "Submitting")
    /\ OrchState = "Report" => ENABLED (Next /\ OrchState' = "Form")
    /\ OrchState = "Form" =>
          /\ ENABLED (Next /\ MissingRequired(store') = {})
          /\ MissingRequired(store) = {} => ENABLED (Next /\ OrchState' = "Submitting")

\* C2: the orchestrator starts in Form, every step is one of the four
\* transitions or leaves the state alone, and no state is terminal
C2_StateMachine ==
    /\ OrchState = "Form"
    /\ [][C2_Allowed]_vars
    /\ []C2_NoTerminal

\* the orchestrator is back in Form after a report was shown, that is after
\* Form -> Submitting -> Report -> Form
C2_Witness ==
    /\ OrchState = "Form"
    /\ notices # <<>>
    /\ LastNotice.type = "success"
    /\ currentStep = "form"

(***************************************************************************)
(* C5.  When an analysis call fails the orchestrator ends in Form with the *)
(* pending flag cleared, no report stored and exactly one message, an      *)
(* error, surfaced; and the intake state is as it was at the submit: no    *)
(* step from the submit to the handling of the failure changes it.         *)
(***************************************************************************)
C5_FailureKeepsIntake ==
    [][ /\ (FailureStep =>
              /\ OrchState' = "Form"
              /\ ~loading'
              /\ analysisReport' = NoReport
              /\ notices' = <<[type |-> "error", content |-> LastNotice'.content]>>
              /\ FormState' = FormState)
        /\ ((loading \/ loading') /\ currentStep' = "form" => FormState' = FormState)
      ]_vars

\* a failure has just been handled, on a form with every section in use
C5_Witness ==
    /\ OrchState = "Form"
    /\ Len(notices) = 1
    /\ notices[1].type = "error"
    /\ store = [f \in FormFields |->
                  IF f \in RequiredFields THEN RequiredFilled[f]
                  ELSE IF f \in LanguageFields THEN LanguageFilled[f]
                  ELSE IF f \in GREInputs THEN GREFilled[f]
                  ELSE GMATFilled[f]]
    /\ hasLanguageScore /\ hasGRE /\ ~hasGMAT
    /\ \A l \in ListNames : Len(lists[l]) = 1

(***************************************************************************)
(* C6.  A report is stored only as the result of a successful analysis     *)
(* call and only while the orchestrator is in Report: none is stored in    *)
(* Form or Submitting, and going back discards it.                         *)
(***************************************************************************)
C6_ReportOnlyInReport ==
    [][ /\ (OrchState' # "Report" => analysisReport' = NoReport)
        /\ (analysisReport' # analysisReport /\ analysisReport' # NoReport =>
              SuccessStep /\ analysisReport' \in Reports)
        /\ (OrchState = "Report" /\ OrchState' = "Form" => analysisReport' = NoReport)
      ]_vars

\* back in Form, after a report was stored and discarded
C6_Witness ==
    /\ OrchState = "Form"
    /\ notices # <<>>
    /\ LastNotice.type = "success"
    /\ analysisReport = NoReport

(***************************************************************************)
(* C7.  After Report -> Form by back-navigation the intake state is that   *)
(* of a fresh session: every input empty, the three toggles off, the three *)
(* lists empty, whatever had been entered before the submit.               *)
(***************************************************************************)
C7_BackGivesFreshForm ==
    [][ OrchState = "Report" /\ OrchState' = "Form" => FormState' = FreshForm ]_vars

\* back on a fresh form after the report of a submit whose form was filled in
C7_Witness ==
    /\ currentStep = "form"
    /\ ~loading
    /\ notices = <<[type |-> "success", content |-> SuccessText]>>
    /\ FormState = FreshForm

(***************************************************************************)
(* The Profile a submit hands to the Analysis Client is the payload of the *)
(* call it starts.  A field has a value in it when it is not undefined.    *)
(***************************************************************************)
HasValue(v) == v.k # "undefined"

NewProfile == calls'[Len(calls')]

BlockAbsent(block) == \A f \in DOMAIN block : ~HasValue(block[f])

BlockWhole(block) == \A f \in DOMAIN block : HasValue(block[f])

(***************************************************************************)
(* C8.  If an optional block's toggle is off at submit time, none of the   *)
(* block's fields is in the assembled Profile, even when the form store    *)
(* still holds values entered while the toggle was on.                     *)
(***************************************************************************)
C8_ToggledOffBlockOmitted ==
    [][ CallStep =>
          /\ (~hasLanguageScore => BlockAbsent(NewProfile.language))
          /\ (~hasGRE => BlockAbsent(NewProfile.gre))
          /\ (~hasGMAT => BlockAbsent(NewProfile.gmat))
      ]_vars

\* a Profile was submitted with the language toggle off while the store held
\* a test type, a total and a sub-score from before; the form cannot change
\* while the call is pending, so the toggle is as it was at the submit
C8_Witness ==
    /\ loading
    /\ Len(calls) = 1
    /\ ~hasLanguageScore
    /\ store["language_test_type"] = Str("TOEFL")
    /\ store["language_total_score"] = Num(100)
    /\ store["language_reading"] = Num(25)
    /\ BlockAbsent(calls[1].language)

(***************************************************************************)
(* C9.  A block whose toggle is on but whose trigger input is empty (the   *)
(* language test type or total, the Test-A total, the Test-B total) is     *)
(* left out of the Profile entirely, its filled-in sub-scores included.    *)
(***************************************************************************)
C9_EmptyTriggerBlockOmitted ==
    [][ CallStep =>
          /\ (/\ hasLanguageScore
              /\ \/ ~HasValue(store["language_test_type"])
                 \/ ~HasValue(store["language_total_score"])
              => BlockAbsent(NewProfile.language))
          /\ (hasGRE /\ ~HasValue(store["gre_total"]) => BlockAbsent(NewProfile.gre))
          /\ (hasGMAT /\ ~HasValue(store["gmat_total"]) => BlockAbsent(NewProfile.gmat))
      ]_vars

\* a Profile was submitted with the language toggle on, a total and a
\* sub-score entered and no test type chosen
C9_Witness ==
    /\ loading
    /\ Len(calls) = 1
    /\ hasLanguageScore
    /\ ~HasValue(store["language_test_type"])
    /\ store["language_total_score"] = Num(100)
    /\ store["language_reading"] = Num(25)
    /\ BlockAbsent(calls[1].language)

(***************************************************************************)
(* C10.  Every submitted Profile holds the language block and the Test-A   *)
(* block each as a whole or not at all: if any field of the block has a    *)
(* value, every field of the block has one.                                *)
(***************************************************************************)
C10_BlocksWholeOrAbsent ==
    \A i \in 1..Len(calls) :
        /\ BlockAbsent(calls[i].language) \/ BlockWhole(calls[i].language)
        /\ BlockAbsent(calls[i].gre) \/ BlockWhole(calls[i].gre)

(***************************************************************************)
(* The exporter's page count.  H is the image height imgHeight and P the   *)
(* page height; the pager holds both multiplied by scale.                  *)
(***************************************************************************)
CeilDiv(a, b) == (a + b - 1) \div b

\* the loop has been left and the document is about to be saved
LoopDone == pager.phase = "loop" /\ ~LoopContinues(pager.heightLeft)

(***************************************************************************)
(* C3.  For every image height H > 0 the pagination (the first placement   *)
(* and the while loop) produces exactly ceil(H / P) pages; H = 900 gives 4 *)
(* pages.                                                                  *)
(***************************************************************************)
C3_PageCountIsCeil ==
    LoopDone => Len(pager.pages) = CeilDiv(pager.imgHeight, pageHeight * pager.scale)

(***************************************************************************)
(* C4.  The exporter adds no trailing blank page: the k-th page shows a    *)
(* part of the image, (k - 1) * P < H; for H = 590 exactly 2 pages are     *)
(* produced.                                                               *)
(***************************************************************************)
C4_NoTrailingBlankPage ==
    pager.phase = "loop" =>
        /\ \A k \in 1..Len(pager.pages) :
              (k - 1) * pageHeight * pager.scale < pager.imgHeight
        /\ (LoopDone /\ pager.imgHeight = 590 * pager.scale => Len(pager.pages) = 2)

(***************************************************************************)
(* C11.  In every submitted Profile a language total score comes with a    *)
(* language test family, and a language score is in the Profile only if    *)
(* the language toggle was on at the submit.                               *)
(***************************************************************************)
C11_LanguageTotalNeedsFamily ==
    [][ CallStep =>
          /\ (HasValue(NewProfile.language["language_total_score"]) =>
                HasValue(NewProfile.language["language_test_type"]))
          /\ (~BlockAbsent(NewProfile.language) => hasLanguageScore)
      ]_vars

\* a Profile with a language total and its test family is in flight, the
\* toggle being on
C11_Witness ==
    /\ loading
    /\ Len(calls) = 1
    /\ hasLanguageScore
    /\ calls[1].language["language_total_score"] = Num(100)
    /\ calls[1].language["language_test_type"] = Str("TOEFL")

(***************************************************************************)
(* SpecValidate: the required inputs, changed one at a time.               *)
(***************************************************************************)
\* what the user can leave in a required input: a text input is cleared to
\* '', an InputNumber to null, a multiple Select to []; a single Select has
\* no clear control
RequiredEdits ==
    {One(f, RequiredFilled[f]) : f \in RequiredFields}
    \cup {One(f, Str("")) : f \in {"undergraduate_university", "undergraduate_major"}}
    \cup {One("gpa", Null)}
    \cup {One(f, Arr(<<>>)) : f \in {"target_countries", "target_majors"}}

NextValidate ==
    \/ \E d \in RequiredEdits : ChangeFields(d)
    \/ SubmitInvalid
    \/ SubmitValid
    \/ \E i \in 1..MaxCalls : \E r \in Reports : AnalyzeSuccess(i, r)
    \/ \E i \in 1..MaxCalls : \E e \in Errors : AnalyzeFailure(i, e)
    \/ handleBackToForm

SpecValidate == Init /\ [][NextValidate]_vars

\* the required inputs that are missing or hold an empty set
UnfilledRequired ==
    {f \in RequiredFields : store[f] \in {Undefined, Null, Arr(<<>>)}}

(***************************************************************************)
(* C12.  While a required field is missing or an empty set, no step        *)
(* produces a Profile or makes an Analysis Client call and the             *)
(* orchestrator stays in Form; and the validation errors a submit reports  *)
(* name every such field.                                                  *)
(***************************************************************************)
C12_MissingRequiredBlocksSubmit ==
    [][ (OrchState = "Form" /\ UnfilledRequired # {}) =>
          /\ calls' = calls
          /\ OrchState' = "Form"
          /\ (store' = store /\ fieldErrors' # fieldErrors =>
                UnfilledRequired \subseteq fieldErrors')
      ]_vars

\* a submit has reported the two missing inputs (a Select never opened and a
\* multiple Select emptied again) of a form whose other required inputs are
\* filled in, and nothing was sent
C12_Witness ==
    /\ OrchState = "Form"
    /\ store["gpa_scale"] = Undefined
    /\ store["target_countries"] = Arr(<<>>)
    /\ \A f \in RequiredFields \ {"gpa_scale", "target_countries"} :
          store[f] = RequiredFilled[f]
    /\ fieldErrors = {"gpa_scale", "target_countries"}
    /\ calls = <<>>
    /\ notices = <<>>

(***************************************************************************)
(* SpecLists: the experience lists, card by card.                          *)
(***************************************************************************)
\* add() calls on the research list in one life of the form
MaxCards == 3

\* what the user types into the description of a card
Drafts == {Str("first draft"), Str("second draft")}

NextLists ==
    \/ ChangeFields(RequiredFilled)
    \/ AddCard("research_experiences", MaxCards)
    \/ \E l \in ListNames \ {"research_experiences"} : AddExperience(l)
    \/ \E l \in ListNames : \E i \in 1..MaxCards : RemoveExperience(l, i)
    \/ \E i \in 1..MaxCards : \E v \in Drafts :
          EditExperience("research_experiences", i, "description", v)
    \/ SubmitValid
    \/ \E i \in 1..MaxCalls : \E r \in Reports : AnalyzeSuccess(i, r)
    \/ \E i \in 1..MaxCalls : \E e \in Errors : AnalyzeFailure(i, e)
    \/ handleBackToForm

SpecLists == Init /\ [][NextLists]_vars

\* the data of the cards in S, by increasing key: keys are handed out in
\* the order of the add() calls
RECURSIVE InInsertionOrder(_)
InInsertionOrder(S) ==
    IF S = {} THEN <<>>
    ELSE LET first == CHOOSE c \in S : \A d \in S : c.key <= d.key
         IN <<first.data>> \o InInsertionOrder(S \ {first})

(***************************************************************************)
(* C13.  Whatever adds, edits and removes were made on an experience list, *)
(* the sequence a submit puts in the Profile is exactly the cards the user *)
(* left on screen, in the order they were added, each with the data last   *)
(* entered for it.                                                         *)
(***************************************************************************)
C13_SubmittedListIsSurvivors ==
    [][ CallStep =>
          \A l \in ListNames :
              NewProfile.experiences[l] = InInsertionOrder(entered[l])
      ]_vars

\* three cards were added and described, the middle one was removed, and the
\* Profile in flight holds the first and the third, in that order
C13_Witness ==
    /\ loading
    /\ Len(calls) = 1
    /\ nextKey["research_experiences"] = 3
    /\ {c.key : c \in entered["research_experiences"]} = {0, 2}
    /\ Len(calls[1].experiences["research_experiences"]) = 2
    /\ calls[1].experiences["research_experiences"][1].description = Str("first draft")
    /\ calls[1].experiences["research_experiences"][2].description = Str("second draft")

(***************************************************************************)
(* SpecErrors: the failures of the analysis call, over every shape of      *)
(* error.                                                                  *)
(***************************************************************************)
NextErrors ==
    \/ ChangeFields(RequiredFilled)
    \/ ToggleLanguage
    \/ ToggleGRE
    \/ ToggleGMAT
    \/ SubmitWhileDisabled
    \/ SubmitValid
    \/ \E i \in 1..MaxCalls : \E r \in Reports : AnalyzeSuccess(i, r)
    \/ \E i \in 1..MaxCalls : \E e \in ErrorCases : AnalyzeFailure(i, e)
    \/ handleBackToForm

SpecErrors == Init /\ [][NextErrors]_vars

\* the error the catch block has just handled, and the message it surfaced
CaughtError == logged'[Len(logged')]
Surfaced == notices'[Len(notices')].content

\* a source of the message is present when it is a text that is not empty
Present(v) == v.k = "string" /\ v.s # ""

(***************************************************************************)
(* C14.  On an analysis failure the surfaced message is the remote detail, *)
(* verbatim, when the error carries one; otherwise the message of the      *)
(* error when it has one; otherwise the static fallback.  A lower source   *)
(* is used only when every higher one is absent.                           *)
(***************************************************************************)
C14_MessagePrecedence ==
    [][ FailureStep =>
          /\ Len(logged') = Len(logged) + 1
          /\ (Present(CaughtError.detail) => Surfaced = CaughtError.detail)
          /\ (~Present(CaughtError.detail) /\ Present(CaughtError.message) =>
                Surfaced = CaughtError.message)
          /\ (~Present(CaughtError.detail) /\ ~Present(CaughtError.message) =>
                Surfaced = FallbackText)
      ]_vars

\* an error with the detail "quota exceeded" and a message of its own was
\* handled, and the detail is what was surfaced
C14_Witness ==
    /\ OrchState = "Form"
    /\ Len(logged) = 1
    /\ logged[1].detail = Str("quota exceeded")
    /\ logged[1].message = Str("Request failed with status code 429")
    /\ Len(notices) = 1
    /\ notices[1] = [type |-> "error", content |-> Str("quota exceeded")]

\* a timeout without a response: no detail, and the message axios gives it
BareTimeout(error) == ~Present(error.detail) /\ error.message = TimeoutText

(***************************************************************************)
(* C15, as stated.  For every analysis failure the surfaced message is a   *)
(* non-empty text, and a bare network timeout surfaces the static          *)
(* fallback.                                                               *)
(***************************************************************************)
C15_TimeoutShowsFallback ==
    [][ FailureStep =>
          /\ Present(Surfaced)
          /\ (BareTimeout(CaughtError) => Surfaced = FallbackText)
      ]_vars

(***************************************************************************)
(* C15, amended.  For every analysis failure the surfaced message is a     *)
(* non-empty text; a bare network timeout surfaces the message of the      *)
(* error, and the static fallback is surfaced only for an error that has   *)
(* neither a detail nor a message.                                         *)
(***************************************************************************)
C15_MessageNeverEmpty ==
    [][ FailureStep =>
          /\ Present(Surfaced)
          /\ (BareTimeout(CaughtError) => Surfaced = TimeoutText)
          /\ (Surfaced = FallbackText =>
                ~Present(CaughtError.detail) /\ ~Present(CaughtError.message))
      ]_vars

\* a bare timeout was handled and its own message surfaced
C15_Witness ==
    /\ OrchState = "Form"
    /\ Len(logged) = 1
    /\ BareTimeout(logged[1])
    /\ notices = <<[type |-> "error", content |-> TimeoutText]>>

\* a step in which the catch block handles a rejected call
CatchStep == Len(logged') = Len(logged) + 1

(***************************************************************************)
(* C16.  Each accepted submission causes exactly one Analysis Client call, *)
(* carrying exactly the Profile assembled from the form (the required      *)
(* fields, the lists, and each optional block either absent or as          *)
(* entered); a call is started by nothing but a submission; and a failed   *)
(* call is never retried: handling the failure leaves no call in flight.   *)
(***************************************************************************)
C16_OneCallPerSubmission ==
    [][ /\ (OrchState = "Form" /\ OrchState' = "Submitting" =>
              /\ calls = <<>>
              /\ Len(calls') = 1)
        /\ (CallStep =>
              /\ OrchState = "Form" /\ OrchState' = "Submitting"
              /\ MissingRequired(store) = {}
              /\ NewProfile.required = [f \in RequiredFields |-> store[f]]
              /\ \A f \in LanguageFields :
                    NewProfile.language[f] \in {Undefined, store[f]}
              /\ \A f \in GREFields :
                    NewProfile.gre[f] \in {Undefined, Lookup(store, f)}
              /\ \A f \in GMATFields :
                    NewProfile.gmat[f] \in {Undefined, store[f]}
              /\ \A l \in ListNames :
                    NewProfile.experiences[l] = StripKeys(lists[l]))
        /\ (CatchStep => calls' = <<>> /\ Len(calls) = 1 /\ ~loading')
        /\ (OrchState' # "Submitting" => calls' = <<>>)
      ]_vars

\* a submission with the Test-A block in use was sent once, the call failed,
\* and no call is in flight
C16_Witness ==
    /\ OrchState = "Form"
    /\ calls = <<>>
    /\ Len(logged) = 1
    /\ notices # <<>> /\ LastNotice.type = "error"
    /\ hasGRE
    /\ store["gre_total"] = Num(320)
    /\ MissingRequired(store) = {}

\* a step in which a capture in flight ends without a canvas to paginate
ExportFailureStep == captures' < captures /\ pager' = Idle

\* a step of downloadPDF: its start, its failure, or a step of its
\* continuation
ExportStep == exportVars' # exportVars

(***************************************************************************)
(* C17.  When the capture or the encoding of an export fails, the failure  *)
(* is caught, no file is written, not even a partial one, the orchestrator *)
(* stays where it is with the same report, and an export can be started    *)
(* again from the report view.                                             *)
(***************************************************************************)
C17_ExportFailureContained ==
    /\ [][ ExportFailureStep =>
             /\ pdfErrorLogged'
             /\ savedPages' = savedPages
             /\ OrchState' = OrchState
             /\ analysisReport' = analysisReport
             /\ captures' = captures - 1
         ]_vars
    /\ [](OrchState = "Report" /\ Ready /\ captures = 0 => ENABLED ClickDownload)

\* an export failed without writing a file, the report is still shown, and
\* the next export has been started
C17_Witness ==
    /\ pdfErrorLogged
    /\ savedPages = 0
    /\ OrchState = "Report"
    /\ analysisReport \in Reports
    /\ captures = 1

(***************************************************************************)
(* C18.  An export is started only in Report; and no step of an export,    *)
(* one in flight when the user navigates back included, changes the        *)
(* orchestrator's step, report or pending flag.                            *)
(***************************************************************************)
C18_ExportLeavesOrchestrator ==
    [][ /\ (captures' > captures =>
              OrchState = "Report" /\ analysisReport # NoReport)
        /\ (ExportStep =>
              /\ currentStep' = currentStep
              /\ analysisReport' = analysisReport
              /\ loading' = loading)
      ]_vars

\* the user went back while a capture was in flight; the capture has resolved
\* and its pages are being made while the fresh form is on screen
C18_Witness ==
    /\ currentStep = "form"
    /\ analysisReport = NoReport
    /\ ~loading
    /\ pager.phase = "loop"

(***************************************************************************)
(* SpecLive: a session in which every analysis call settles.  The request  *)
(* resolves, rejects, or is cut off by the timeout of apiClient, which     *)
(* rejects it: the continuation of handleFormSubmit is always run.         *)
(***************************************************************************)
Settle ==
    \/ \E i \in 1..MaxCalls : \E r \in Reports : AnalyzeSuccess(i, r)
    \/ \E i \in 1..MaxCalls : \E e \in Errors : AnalyzeFailure(i, e)

NextLive ==
    \/ ChangeFields(RequiredFilled)
    \/ ToggleLanguage
    \/ ToggleGRE
    \/ ToggleGMAT
    \/ \E l \in ListNames : AddExperience(l)
    \/ SubmitWhileDisabled
    \/ SubmitInvalid
    \/ SubmitValid
    \/ Settle
    \/ handleBackToForm

SpecLive == Init /\ [][NextLive]_vars /\ WF_vars(Settle)

(***************************************************************************)
(* C19.  Every Submitting state is eventually left, for Report or for      *)
(* Form, with the pending flag cleared; and a call cut off by the timeout  *)
(* is handled as a failure: the orchestrator returns to Form and an error  *)
(* message is surfaced.                                                    *)
(***************************************************************************)
C19_SubmittingIsLeft ==
    /\ (OrchState = "Submitting") ~> (OrchState \in {"Report", "Form"} /\ ~loading)
    /\ [][ CatchStep /\ BareTimeout(CaughtError) =>
             /\ OrchState = "Submitting"
             /\ OrchState' = "Form"
             /\ ~loading'
             /\ notices'[Len(notices')].type = "error"
         ]_vars

\* a call was cut off by the timeout and the orchestrator is back in Form,
\* the flag cleared, the error surfaced, the form as submitted
C19_Witness ==
    /\ OrchState = "Form"
    /\ ~loading
    /\ calls = <<>>
    /\ logged = <<[detail |-> Undefined, message |-> TimeoutText]>>
    /\ Len(notices) = 1
    /\ notices[1].type = "error"
    /\ MissingRequired(store) = {}

(***************************************************************************)
(* AnalysisReport.renderBackgroundImprovement: the content of the          *)
(* Background Improvement tab.                                             *)
(***************************************************************************)
UnavailableText == Str("background improvement advice cannot be generated for now")

\* a panel that reads the block through optional chaining, without the test
\* for its absence
renderBackgroundImprovement_NoGuard(report) ==
    LET b == report.background_improvement
    IN [element |-> "Space",
        timeline |-> IF Truthy(b)
                     THEN [i \in 1..Len(b.o.action_plan) |->
                             [key |-> i - 1,
                              title |-> b.o.action_plan[i].timeframe,
                              action |-> b.o.action_plan[i].action,
                              goal |-> b.o.action_plan[i].goal]]
                     ELSE <<>>,
        summary |-> IF Truthy(b) THEN b.o.strategy_summary ELSE Undefined]

renderBackgroundImprovement(report) ==
    LET b == report.background_improvement
    IN IF ~Truthy(b)
       THEN [element |-> "Alert", message |-> UnavailableText, type |-> "info"]
       ELSE [element |-> "Space",
             timeline |-> [i \in 1..Len(b.o.action_plan) |->
                             [key |-> i - 1,
                              title |-> b.o.action_plan[i].timeframe,
                              action |-> b.o.action_plan[i].action,
                              goal |-> b.o.action_plan[i].goal]],
             summary |-> b.o.strategy_summary]

\* the tab as it is on screen while the report view is mounted
BackgroundPanel == renderBackgroundImprovement(analysisReport)

(***************************************************************************)
(* SpecReport: the report view, over every shape of improvement block.     *)
(***************************************************************************)
NextReport ==
    \/ ChangeFields(RequiredFilled)
    \/ SubmitValid
    \/ \E i \in 1..MaxCalls : \E r \in ReportCases : AnalyzeSuccess(i, r)
    \/ handleBackToForm
    \/ ClickDownload
    \/ CaptureFails

SpecReport == Init /\ [][NextReport]_vars

\* the improvement block of the report on screen is absent
ImprovementAbsent == analysisReport.background_improvement \in {Null, Undefined}

(***************************************************************************)
(* C20.  While a report is shown, the Background Improvement panel is the  *)
(* unavailable notice exactly when the report's improvement block is       *)
(* absent; otherwise it shows the entries of the action plan, in the       *)
(* order given, followed by the strategy summary.                          *)
(***************************************************************************)
C20_ImprovementPanel ==
    ReportViewMounted(currentStep, analysisReport) =>
        /\ (BackgroundPanel.element = "Alert") <=> ImprovementAbsent
        /\ ImprovementAbsent => BackgroundPanel.message = UnavailableText
        /\ ~ImprovementAbsent =>
              LET block == analysisReport.background_improvement.o
              IN /\ BackgroundPanel.element = "Space"
                 /\ Len(BackgroundPanel.timeline) = Len(block.action_plan)
                 /\ \A i \in 1..Len(block.action_plan) :
                       /\ BackgroundPanel.timeline[i].title = block.action_plan[i].timeframe
                       /\ BackgroundPanel.timeline[i].action = block.action_plan[i].action
                       /\ BackgroundPanel.timeline[i].goal = block.action_plan[i].goal
                 /\ BackgroundPanel.summary = block.strategy_summary

\* a report without an improvement block is on screen and the panel is the
\* notice
C20_Witness ==
    /\ ReportViewMounted(currentStep, analysisReport)
    /\ analysisReport.background_improvement = Null
    /\ BackgroundPanel = [element |-> "Alert", message |-> UnavailableText, type |-> "info"]

(***************************************************************************)
(* AnalysisReport.renderSimilarCases: one card per comparable case.        *)
(***************************************************************************)
\* what React puts on screen for {value && element}: the element when the
\* value is truthy, nothing for undefined, null and ''
Nothing == [element |-> "none"]
WhenTruthy(value, element) == IF Truthy(value) THEN element ELSE Nothing

\* cards that show the test-type tag whatever the record holds
renderSimilarCases_AlwaysTag(report) ==
    [i \in 1..Len(report.similar_cases) |->
        LET caseItem == report.similar_cases[i]
        IN [key |-> i - 1,
            title |-> caseItem.admitted_university,
            testType |-> [element |-> "Tag", text |-> caseItem.language_test_type],
            experiences |-> WhenTruthy(caseItem.key_experiences,
                               [element |-> "Text", text |-> caseItem.key_experiences])]]

renderSimilarCases(report) ==
    [i \in 1..Len(report.similar_cases) |->
        LET caseItem == report.similar_cases[i]
        IN [key |-> i - 1,
            title |-> caseItem.admitted_university,
            testType |-> WhenTruthy(caseItem.language_test_type,
                            [element |-> "Tag", text |-> caseItem.language_test_type]),
            experiences |-> WhenTruthy(caseItem.key_experiences,
                               [element |-> "Text", text |-> caseItem.key_experiences])]]

\* the Comparable Cases tab as it is on screen while the report view is
\* mounted
CasesPanel == renderSimilarCases(analysisReport)

(***************************************************************************)
(* SpecCases: the report view, over every list of comparable cases.        *)
(***************************************************************************)
NextCases ==
    \/ ChangeFields(RequiredFilled)
    \/ SubmitValid
    \/ \E i \in 1..MaxCalls : \E r \in CaseReports : AnalyzeSuccess(i, r)
    \/ handleBackToForm
    \/ ClickDownload
    \/ CaptureFails

SpecCases == Init /\ [][NextCases]_vars

\* a record carries a test-type value when the key holds a text that is not
\* empty
CarriesTestType(caseItem) ==
    /\ caseItem.language_test_type.k = "string"
    /\ caseItem.language_test_type.s # ""

(***************************************************************************)
(* C21.  While a report is shown there is one card per comparable case,    *)
(* in order, and the card shows the test-type tag, with the record's       *)
(* value, if and only if the record carries a test-type value.             *)
(***************************************************************************)
C21_TestTypeTagIffPresent ==
    ReportViewMounted(currentStep, analysisReport) =>
        /\ Len(CasesPanel) = Len(analysisReport.similar_cases)
        /\ \A i \in 1..Len(analysisReport.similar_cases) :
              LET caseItem == analysisReport.similar_cases[i]
              IN /\ (CasesPanel[i].testType.element = "Tag") <=> CarriesTestType(caseItem)
                 /\ CarriesTestType(caseItem) =>
                       CasesPanel[i].testType.text = caseItem.language_test_type

\* a report with a case that carries a test type and one whose test type is
\* empty is on screen: the first card has the tag, the second has none
C21_Witness ==
    /\ ReportViewMounted(currentStep, analysisReport)
    /\ Len(analysisReport.similar_cases) = 2
    /\ analysisReport.similar_cases[1].language_test_type = Str("IELTS")
    /\ analysisReport.similar_cases[2].language_test_type = Str("")
    /\ CasesPanel[1].testType = [element |-> "Tag", text |-> Str("IELTS")]
    /\ CasesPanel[2].testType = Nothing

\* the identities of the cards of a list, in order
Keys(list) == [i \in 1..Len(list) |-> list[i].key]

\* a step of the user on the form: no submit, no mount or unmount
FormStep == OrchState = "Form" /\ OrchState' = "Form"

\* the cards the list loses in a step, by identity
Targeted(l) == {c.key : c \in entered[l]} \ {c.key : c \in entered'[l]}

(***************************************************************************)
(* C22.  On an experience list, add() appends exactly one blank record at  *)
(* the end, under an identity never used before in that list (every        *)
(* identity handed out so far is below the list's counter, the new one is  *)
(* not); remove deletes exactly the one targeted record and leaves the     *)
(* others, their order and identities as they were; and the sequence put   *)
(* in the Profile holds the records' fields only, no identities.           *)
(***************************************************************************)
C22_ListOperations ==
    [][ /\ \A l \in ListNames :
              /\ \A i \in 1..Len(lists[l]) : lists[l][i].key < nextKey[l]
              /\ (FormStep /\ Len(lists'[l]) > Len(lists[l]) =>
                    /\ Len(lists'[l]) = Len(lists[l]) + 1
                    /\ SubSeq(lists'[l], 1, Len(lists[l])) = lists[l]
                    /\ lists'[l][Len(lists'[l])].data = [f \in ExpFields(l) |-> Undefined]
                    /\ lists'[l][Len(lists'[l])].key >= nextKey[l]
                    /\ lists'[l][Len(lists'[l])].key < nextKey'[l])
              /\ (FormStep /\ Len(lists'[l]) < Len(lists[l]) =>
                    /\ Cardinality(Targeted(l)) = 1
                    /\ lists'[l] = SelectSeq(lists[l], LAMBDA c : c.key \notin Targeted(l))
                    /\ nextKey'[l] = nextKey[l])
        /\ (CallStep =>
              \A l \in ListNames :
                  /\ Len(NewProfile.experiences[l]) = Len(lists[l])
                  /\ \A i \in 1..Len(lists[l]) :
                        DOMAIN NewProfile.experiences[l][i] = ExpFields(l))
      ]_vars

\* the first of two cards was removed and a third card added: the list holds
\* the second card and, after it, a blank one under a new identity
C22_Witness ==
    /\ OrchState = "Form"
    /\ Keys(lists["research_experiences"]) = <<1, 2>>
    /\ lists["research_experiences"][1].data["description"] = Str("second draft")
    /\ lists["research_experiences"][2].data = BlankEntry("research_experiences")

\* the page height in the pager's unit
PageUnit == pageHeight * pager.scale

(***************************************************************************)
(* C23.  The exporter places the image on page 1 at offset 0 and on page   *)
(* k at offset -(k - 1) * P, the remaining height going down by P with     *)
(* every page; and when the loop is left the windows [(k - 1) * P, k * P)  *)
(* of the pages made cover the whole image [0, H): no content is lost.     *)
(***************************************************************************)
C23_PageOffsetsCoverImage ==
    pager.phase = "loop" =>
        /\ \A k \in 1..Len(pager.pages) : pager.pages[k] = -((k - 1) * PageUnit)
        /\ pager.position = -((Len(pager.pages) - 1) * PageUnit)
        /\ pager.heightLeft = pager.imgHeight - Len(pager.pages) * PageUnit
        /\ (LoopDone => Len(pager.pages) * PageUnit >= pager.imgHeight)

\* a canvas of 210 x 900: four pages at 0, -295, -590 and -885, and the
\* loop is left
C23_Witness ==
    /\ LoopDone
    /\ pager.scale = 210
    /\ pager.imgHeight = 900 * 210
    /\ pager.pages = <<0, -(295 * 210), -(590 * 210), -(885 * 210)>>

\* the flags of the three optional blocks
Toggles == <<hasLanguageScore, hasGRE, hasGMAT>>

(***************************************************************************)
(* C24.  The three block toggles and the three experience lists are        *)
(* independent of each other: a step on the form that changes one block's  *)
(* flag changes no other flag, no field value and no list; a step that     *)
(* changes one list changes no other list, no field value and no flag.     *)
(***************************************************************************)
C24_TogglesAndListsIndependent ==
    [][ FormStep =>
          /\ (hasLanguageScore' # hasLanguageScore =>
                UNCHANGED <<hasGRE, hasGMAT, store, lists, nextKey>>)
          /\ (hasGRE' # hasGRE =>
                UNCHANGED <<hasLanguageScore, hasGMAT, store, lists, nextKey>>)
          /\ (hasGMAT' # hasGMAT =>
                UNCHANGED <<hasLanguageScore, hasGRE, store, lists, nextKey>>)
          /\ \A l \in ListNames :
                lists'[l] # lists[l] =>
                    /\ \A other \in ListNames \ {l} :
                          /\ lists'[other] = lists[other]
                          /\ nextKey'[other] = nextKey[other]
                    /\ UNCHANGED <<store, Toggles>>
      ]_vars

\* the Test-A block was filled in and switched off again while the language
\* and Test-B blocks stay on with their values, and one list has a card
\* while the other two are empty
C24_Witness ==
    /\ OrchState = "Form"
    /\ Toggles = <<TRUE, FALSE, TRUE>>
    /\ store["gre_total"] = Num(320)
    /\ store["language_total_score"] = Num(100)
    /\ store["gmat_total"] = Num(700)
    /\ Len(lists["internship_experiences"]) = 1
    /\ lists["research_experiences"] = <<>>
    /\ lists["other_experiences"] = <<>>

\* the two views of App
FormShown == UserFormMounted(currentStep)
ReportShown == ReportViewMounted(currentStep, analysisReport)

(***************************************************************************)
(* C25.  In every reachable state exactly one of the two views is shown:   *)
(* while the step is 'report' a report is stored and the report view is    *)
(* rendered, while the step is 'form' the form is rendered, and there is   *)
(* no state in which neither is.                                           *)
(***************************************************************************)
C25_ExactlyOneView ==
    /\ currentStep \in {"form", "report"}
    /\ currentStep = "report" => analysisReport # NoReport /\ ReportShown
    /\ currentStep = "form" => FormShown
    /\ FormShown # ReportShown

\* the report view is shown and the form is not, no call pending
C25_Witness ==
    /\ currentStep = "report"
    /\ analysisReport \in Reports
    /\ ReportShown
    /\ ~FormShown
    /\ ~loading

(***************************************************************************)
(* C26.  The pending flag mirrors the call: it is set exactly while an     *)
(* Analysis Client call is in flight, and it is cleared by the step that   *)
(* handles the call's success as well as by the one that handles its       *)
(* failure.                                                                *)
(***************************************************************************)
C26_FlagMirrorsCall ==
    /\ [][ /\ (CallStep => loading')
           /\ (SuccessStep => ~loading' /\ calls' = <<>>)
           /\ (CatchStep => ~loading' /\ calls' = <<>>)
       ]_vars
    /\ [](loading <=> calls # <<>>)

\* a call has succeeded: the report is shown, the flag is cleared and no
\* call is in flight
C26_Witness ==
    /\ OrchState = "Report"
    /\ ~loading
    /\ calls = <<>>
    /\ notices = <<[type |-> "success", content |-> SuccessText]>>
    /\ ReportShown

(***************************************************************************)
(* C27.  A language block whose toggle is on and whose total score is the  *)
(* number 0 is treated exactly like one whose total is empty: the Profile  *)
(* is the one assembled from the same form with the total left empty, and  *)
(* the whole block is omitted from it.  (The totals of the two test        *)
(* blocks have a minimum above 0.)                                         *)
(***************************************************************************)
C27_ZeroTotalIsEmpty ==
    [][ CallStep /\ hasLanguageScore /\ store["language_total_score"] = Num(0) =>
          /\ BlockAbsent(NewProfile.language)
          /\ NewProfile =
                handleSubmit([store EXCEPT !["language_total_score"] = Undefined],
                             lists, hasLanguageScore, hasGRE, hasGMAT)
      ]_vars

\* a Profile was submitted with the language toggle on, a test type chosen,
\* a sub-score entered and a total of 0: the block is not in it
C27_Witness ==
    /\ loading
    /\ Len(calls) = 1
    /\ hasLanguageScore
    /\ store["language_test_type"] = Str("TOEFL")
    /\ store["language_total_score"] = Num(0)
    /\ store["language_reading"] = Num(25)
    /\ BlockAbsent(calls[1].language)

(***************************************************************************)
(* SpecPaginate: the exporter's loop, run to its end.  The loop and the    *)
(* save that follows it are synchronous code: once the continuation of     *)
(* downloadPDF has started, each of its steps is taken.  The canvases are  *)
(* as wide as the page and of every height from 0.                         *)
(***************************************************************************)
PageCanvases == [width : {imgWidth}, height : 0..MaxCanvasHeight]

NextPaginate ==
    \/ ChangeFields(RequiredFilled)
    \/ SubmitValid
    \/ \E i \in 1..MaxCalls : \E r \in Reports : AnalyzeSuccess(i, r)
    \/ handleBackToForm
    \/ ClickDownload
    \/ CaptureFails
    \/ \E c \in PageCanvases : CaptureDone(c)
    \/ LoopIteration
    \/ SavePdf

SpecPaginate ==
    Init /\ [][NextPaginate]_vars /\ WF_vars(LoopIteration) /\ WF_vars(SavePdf)

\* a step in which pdf.save writes the file
SaveStep == pager.phase = "loop" /\ pager'.phase = "idle"

(***************************************************************************)
(* C28.  For every image height H, H < P and H = 0 included, the           *)
(* pagination loop ends after finitely many iterations (at most H / P      *)
(* rounded down, whatever H) and the file is then saved; the document has  *)
(* at least one page throughout; and the file is saved only once the loop  *)
(* has been left, with the pages made.                                     *)
(***************************************************************************)
C28_PaginationTerminates ==
    /\ (pager.phase = "loop") ~> (pager.phase = "idle")
    /\ [](pager.phase = "loop" =>
            /\ Len(pager.pages) >= 1
            /\ Len(pager.pages) <= pager.imgHeight \div PageUnit + 1)
    /\ [][ /\ (SaveStep =>
                 /\ LoopDone
                 /\ savedPages' = Len(pager.pages)
                 /\ savedPages' >= 1)
           /\ (savedPages' # savedPages => SaveStep)
       ]_vars

\* a canvas of height 0 was captured: the loop is left without an iteration
\* and the document about to be saved has its one page
C28_Witness ==
    /\ LoopDone
    /\ pager.imgHeight = 0
    /\ pager.pages = <<0>>

=============================================================================
